---- MODULE Spec2Model ----
(***************************************************************************)
(* Model of meta_scrubber_v3.py: the MetadataScrubber object, the files it *)
(* reads and writes, and the run of main() over it.                        *)
(*                                                                         *)
(* Strings the program builds or inspects (paths) are tuples of one-       *)
(* character strings, so that splitext, endswith and the f-string that     *)
(* derives the output name are computed as the code computes them.         *)
(* An EXIF block on disk is a set of IFD entries; exif_dict in memory is   *)
(* piexif's dict of dicts, namespace -> (tag id -> value).                 *)
(***************************************************************************)
EXTENDS Integers, Sequences, FiniteSets, TLC

(* ------------------------------------------------------------------ *)
(* Bounds of the model                                                  *)
(* ------------------------------------------------------------------ *)

\* scrub_metadata calls made in one run
MaxCalls == 2

\* IFD entries held by a document handed to the removal step
MaxTags == 3

(* ------------------------------------------------------------------ *)
(* Tag ids and namespaces                                               *)
(* ------------------------------------------------------------------ *)

\* piexif.ImageIFD.DateTime
DateTime == 306

\* piexif.ExifIFD.DateTimeOriginal
DateTimeOriginal == 36867

\* piexif.ExifIFD.DateTimeDigitized
DateTimeDigitized == 36868

\* Tag ids outside the date/time family: 2 is piexif.GPSIFD.GPSLatitude
OtherTags == {2}

GPSLatitude == CHOOSE t \in OtherTags : TRUE

Namespaces == {"0th", "1st", "Exif", "GPS", "Interop"}

TagIds == {DateTime, DateTimeOriginal, DateTimeDigitized} \cup OtherTags

Values == {"v1", "v2"}

\* The empty dict {}
EmptyDir == [t \in {} |-> "v1"]

\* {'0th': {}, '1st': {}, 'Exif': {}, 'GPS': {}, 'Interop': {}}
EmptyExifDict == [ns \in Namespaces |-> EmptyDir]

None == <<"None">>

(* ------------------------------------------------------------------ *)
(* EXIF blocks and piexif's load / dump                                 *)
(* ------------------------------------------------------------------ *)

\* One IFD entry of an EXIF block
Entry(ns, tag, v) == [ifd |-> ns, tag |-> tag, value |-> v]

\* piexif.load: the block's entries, grouped into one dict per IFD (the
\* pointer tags that link the IFDs are container layout and are not modelled
\* as entries)
piexif_load(block) ==
    [ns \in Namespaces |->
        [t \in {e.tag : e \in {x \in block : x.ifd = ns}} |->
            (CHOOSE e \in block : e.ifd = ns /\ e.tag = t).value]]

\* piexif.dump: every dict's items, written as the entries of its IFD
piexif_dump(d) ==
    UNION {{Entry(ns, t, d[ns][t]) : t \in DOMAIN d[ns]} : ns \in Namespaces}

\* A file: a JPEG with or without an EXIF block (pixel data is not modelled)
ImageFile(has, block) == [has_exif |-> has, exif |-> block]

\* img.info['exif'] loaded if present, else the five empty dicts
LoadExifDict(file) ==
    IF file.has_exif THEN piexif_load(file.exif) ELSE EmptyExifDict

\* Sets of at most n entries with at most one entry per (ifd, tag)
RECURSIVE Blocks(_)
Blocks(n) ==
    IF n = 0 THEN {{}}
    ELSE LET smaller == Blocks(n - 1)
         IN  smaller \cup
             {b \cup {Entry(ns, t, v)} :
                 <<b, ns, t, v>> \in
                    {q \in smaller \X Namespaces \X TagIds \X Values :
                        \A e \in q[1] : ~(e.ifd = q[2] /\ e.tag = q[3])}}

(* ------------------------------------------------------------------ *)
(* The removal step of scrub_metadata                                   *)
(* ------------------------------------------------------------------ *)

\* The state of the removal step: the dict being edited, and the exception
\* raised so far ("" when none)
Editing(d) == [dict |-> d, raised |-> ""]

\* del d[tag]: KeyError when the key is absent
Del(st, ns, tag) ==
    IF st.raised # "" THEN st
    ELSE IF tag \in DOMAIN st.dict[ns]
         THEN [st EXCEPT !.dict[ns] =
                  [t \in (DOMAIN st.dict[ns]) \ {tag} |-> st.dict[ns][t]]]
         ELSE [st EXCEPT !.raised = "KeyError"]

\* A removal written without the membership test
DelUnguarded(st, ns, tag) == Del(st, ns, tag)

\* if tag in exif_dict[ns]: del exif_dict[ns][tag]
DelIfPresent(st, ns, tag) ==
    IF st.raised = "" /\ tag \in DOMAIN st.dict[ns] THEN Del(st, ns, tag) ELSE st

\* date_time_tags, in the order of the list
date_time_tags == <<DateTime, DateTimeOriginal, DateTimeDigitized>>

\* The for loop over date_time_tags, from its i-th element on: each tag is
\* looked up in the 0th dict and then in the Exif dict
RECURSIVE RemoveDateTimeFrom(_, _)
RemoveDateTimeFrom(st, i) ==
    IF i > Len(date_time_tags) THEN st
    ELSE RemoveDateTimeFrom(
            DelIfPresent(DelIfPresent(st, "0th", date_time_tags[i]),
                         "Exif", date_time_tags[i]),
            i + 1)

\* A removal that empties the whole document
RemoveGpsAll(st) == [st EXCEPT !.dict = EmptyExifDict]

\* exif_dict['GPS'] = {}
RemoveGps(st) == [st EXCEPT !.dict["GPS"] = EmptyDir]

\* The if / elif on metadata_type: any other identifier falls through and
\* leaves exif_dict as loaded
RemoveMetadata(d, metadata_type) ==
    IF metadata_type = "datetime" THEN RemoveDateTimeFrom(Editing(d), 1)
    ELSE IF metadata_type = "gps" THEN RemoveGps(Editing(d))
    ELSE Editing(d)

(* ------------------------------------------------------------------ *)
(* Paths                                                                *)
(* ------------------------------------------------------------------ *)

\* str.lower on the characters the paths of the model hold
Lower(c) ==
    CASE c = "J" -> "j" [] c = "P" -> "p" [] c = "E" -> "e" [] c = "G" -> "g"
      [] OTHER -> c

LowerStr(s) == [i \in 1..Len(s) |-> Lower(s[i])]

\* str.endswith
EndsWith(s, suffix) ==
    /\ Len(s) >= Len(suffix)
    /\ SubSeq(s, Len(s) - Len(suffix) + 1, Len(s)) = suffix

\* str.strip
RECURSIVE Strip(_)
Strip(s) ==
    IF s = <<>> THEN s
    ELSE IF Head(s) = " " THEN Strip(Tail(s))
    ELSE IF s[Len(s)] = " " THEN Strip(SubSeq(s, 1, Len(s) - 1))
    ELSE s

\* str.rfind, 1-based; 0 when the character does not occur
RFind(s, c) ==
    LET at == {i \in 1..Len(s) : s[i] = c}
    IN  IF at = {} THEN 0 ELSE CHOOSE i \in at : \A j \in at : j <= i

\* os.path.splitext: the extension starts at the last dot of the last
\* component, unless only dots precede it there
splitext(p) ==
    LET sepIndex == RFind(p, "/")
        dotIndex == RFind(p, ".")
    IN  IF dotIndex > sepIndex
           /\ \E k \in (sepIndex + 1)..(dotIndex - 1) : p[k] # "."
        THEN <<SubSeq(p, 1, dotIndex - 1), SubSeq(p, dotIndex, Len(p))>>
        ELSE <<p, <<>>>>

Digit == <<"0", "1", "2", "3", "4", "5", "6", "7", "8", "9">>

\* str(n) of a natural number
RECURSIVE IntToStr(_)
IntToStr(n) ==
    IF n < 10 THEN <<Digit[n + 1]>>
    ELSE IntToStr(n \div 10) \o <<Digit[(n % 10) + 1]>>

\* An output name that leaves the counter out
NewFileNoCounter(path, n) ==
    splitext(path)[1] \o <<"_", "c", "l", "e", "a", "n", ".", "j", "p", "g">>

\* f"{base_name}_clean_{self.clean_file_count}.jpg"
NewFile(path, n) ==
    splitext(path)[1] \o <<"_", "c", "l", "e", "a", "n", "_">> \o IntToStr(n)
        \o <<".", "j", "p", "g">>

(* ------------------------------------------------------------------ *)
(* Readable metadata                                                    *)
(* ------------------------------------------------------------------ *)

\* TAGS.get(tag_id, tag_id): the name of a main-table tag, else the id
TagName(t) ==
    CASE t = DateTime -> "DateTime"
      [] t = DateTimeOriginal -> "DateTimeOriginal"
      [] t = DateTimeDigitized -> "DateTimeDigitized"
      [] OTHER -> ToString(t)

\* GPSTAGS.get(gps_tag, gps_tag)
GpsTagName(t) == IF t = GPSLatitude THEN "GPSLatitude" ELSE ToString(t)

\* img._getexif() is truthy: the file has an EXIF block whose 0th IFD holds
\* a tag or a pointer to the Exif (with Interop) or GPS IFD
HasExifData(file) ==
    file.has_exif /\ \E e \in file.exif : e.ifd # "1st"

\* get_readable_exif(img._getexif()): the 0th tags updated by the Exif tags
\* under their names, and the GPS tags under "GPS <name>"; a key is the pair
\* <<prefix, name>>
get_readable_exif(file) ==
    LET d == LoadExifDict(file)
        main == {<<"", TagName(t)>> : t \in DOMAIN d["0th"] \cup DOMAIN d["Exif"]}
        gps == {<<"GPS", GpsTagName(t)>> : t \in DOMAIN d["GPS"]}
        MainValue(k) ==
            LET t == CHOOSE x \in DOMAIN d["0th"] \cup DOMAIN d["Exif"] :
                        TagName(x) = k[2]
            IN  IF t \in DOMAIN d["Exif"] THEN d["Exif"][t] ELSE d["0th"][t]
        GpsValue(k) ==
            d["GPS"][CHOOSE x \in DOMAIN d["GPS"] : GpsTagName(x) = k[2]]
    IN  [k \in main \cup gps |->
            IF k[1] = "GPS" THEN GpsValue(k) ELSE MainValue(k)]

\* list(...) | set(...): list defines no | and set refuses a list operand, so
\* the expression raises TypeError and yields no value
ListOrSet(l, s) == [raised |-> "TypeError"]

(* ------------------------------------------------------------------ *)
(* State                                                                *)
(* ------------------------------------------------------------------ *)

VARIABLES
    pc,                 \* where main() is
    file_path,          \* self.file_path
    original_metadata,  \* self.original_metadata
    clean_file_count,   \* self.clean_file_count
    latest_clean_file,  \* self.latest_clean_file
    disk,               \* the files: path -> ImageFile
    log_exists,         \* os.path.exists(self.log_file)
    log_rows,           \* the rows of self.log_file
    console,            \* the last message printed
    comparison,         \* the rows compare_metadata has printed
    exif_loaded,        \* exif_dict as loaded by the latest removal
    exif_dict,          \* exif_dict after the latest removal: dict and raised
    calls               \* history: one record per scrub_metadata call

vars == <<pc, file_path, original_metadata, clean_file_count, latest_clean_file,
          disk, log_exists, log_rows, console, comparison, exif_loaded,
          exif_dict, calls>>

\* The scrubber's own fields and files, apart from the console
objectVars == <<file_path, original_metadata, clean_file_count,
                latest_clean_file, disk, log_exists, log_rows, comparison,
                exif_loaded, exif_dict, calls>>

(* ------------------------------------------------------------------ *)
(* Files of the model                                                   *)
(* ------------------------------------------------------------------ *)

PathA == <<"a", ".", "j", "p", "g">>

PathB == <<"d", "/", "b", ".", "J", "P", "E", "G">>

PathPng == <<"n", ".", "p", "n", "g">>

PathMissing == <<"x", ".", "j", "p", "g">>

PathPadded == <<" ">> \o PathA \o <<" ">>

\* The JPEG the user scrubs is at one of these
JpgPaths == {PathA, PathB}

\* What the user types at the prompt
InputPaths == JpgPaths \cup {PathPng, PathMissing, PathPadded}

\* The entries a source JPEG of a run of main() may hold
MainEntries ==
    {Entry("0th", DateTime, "v1"), Entry("Exif", DateTimeOriginal, "v2"),
     Entry("GPS", GPSLatitude, "v1"), Entry("1st", DateTime, "v2")}

\* The source JPEGs: without an EXIF block, or with some of MainEntries
SourceFiles ==
    {ImageFile(FALSE, {})} \cup {ImageFile(TRUE, b) : b \in SUBSET MainEntries}

\* __init__, and the files on disk when the program starts
InitObject ==
    /\ original_metadata = <<>>
    /\ clean_file_count = 0
    /\ latest_clean_file = None
    /\ log_exists = FALSE
    /\ log_rows = <<>>
    /\ console = "Welcome to Image Metadata Scrubber"
    /\ comparison = {}
    /\ exif_loaded = EmptyExifDict
    /\ exif_dict = Editing(EmptyExifDict)
    /\ calls = <<>>

Init ==
    /\ InitObject
    /\ file_path = None
    /\ pc = "get_file_path"
    /\ \E p \in JpgPaths, f \in SourceFiles :
          disk = (p :> f) @@ (PathPng :> ImageFile(FALSE, {}))

(* ------------------------------------------------------------------ *)
(* get_file_path and extract_metadata                                   *)
(* ------------------------------------------------------------------ *)

\* One turn of the while loop of get_file_path on the line typed
get_file_path(typed) ==
    /\ pc = "get_file_path"
    /\ LET path == Strip(typed)
       IN  IF path \in DOMAIN disk
           THEN IF \/ EndsWith(LowerStr(path), <<".", "j", "p", "g">>)
                   \/ EndsWith(LowerStr(path), <<".", "j", "p", "e", "g">>)
                THEN /\ file_path' = path
                     /\ pc' = "extract_metadata"
                     /\ UNCHANGED console
                ELSE /\ console' = "Error: Only JPG files are currently supported."
                     /\ UNCHANGED <<pc, file_path>>
           ELSE /\ console' = "Error: File not found. Please try again."
                /\ UNCHANGED <<pc, file_path>>
    /\ UNCHANGED <<original_metadata, clean_file_count, latest_clean_file, disk,
                   log_exists, log_rows, comparison, exif_loaded, exif_dict,
                   calls>>

\* A variant that reports EXIF data whatever the file holds
ExtractAlways(exif) == TRUE

\* if exif: of extract_metadata
ExtractFound(exif) == exif

\* extract_metadata, and main()'s use of what it returns: show_menu is
\* entered only on True. opened is whether Image.open and _getexif succeed.
extract_metadata(opened) ==
    /\ pc = "extract_metadata"
    /\ IF opened /\ file_path \in DOMAIN disk
       THEN IF ExtractFound(HasExifData(disk[file_path]))
            THEN /\ original_metadata' = get_readable_exif(disk[file_path])
                 /\ console' = "Original Metadata:"
                 /\ pc' = "show_menu"
            ELSE /\ console' = "No EXIF data found in image."
                 /\ pc' = "returned"
                 /\ UNCHANGED original_metadata
       ELSE /\ console' = "Error reading metadata"
            /\ pc' = "returned"
            /\ UNCHANGED original_metadata
    /\ UNCHANGED <<file_path, clean_file_count, latest_clean_file, disk,
                   log_exists, log_rows, comparison, exif_loaded, exif_dict,
                   calls>>

(* ------------------------------------------------------------------ *)
(* scrub_metadata                                                       *)
(* ------------------------------------------------------------------ *)

\* What the environment lets a scrub_metadata call do: each of these is a
\* call of the try block that can raise
Outcomes == {"ok", "open_error", "dump_error", "save_error", "log_error"}

\* A scrubber that works on from its latest output
OpenPathLatest ==
    IF latest_clean_file # None THEN latest_clean_file ELSE file_path

\* Image.open(self.file_path): the file the call reads
OpenPath == file_path

\* One row of the log; the header row holds the column names
HeaderRow == [kind |-> "header", original |-> None, new |-> None, removed |-> ""]

DataRow(path, new_file, metadata_type) ==
    [kind |-> "data", original |-> path, new |-> new_file,
     removed |-> metadata_type]

\* log_changes: the header if the file did not exist, then the row (the
\* timestamp column is not modelled)
log_changes(metadata_type, new_file) ==
    (IF log_exists THEN log_rows ELSE <<HeaderRow>>)
        \o <<DataRow(file_path, new_file, metadata_type)>>

\* verify_changes: the last line it prints about the file just written
verify_changes(file, metadata_type) ==
    IF ~HasExifData(file) THEN "Success: No EXIF data found in new file!"
    ELSE LET new_metadata == get_readable_exif(file)
         IN  IF metadata_type = "datetime"
             THEN IF \E k \in DOMAIN new_metadata :
                        /\ k[1] = ""
                        /\ k[2] \in {"DateTime", "DateTimeOriginal",
                                     "DateTimeDigitized"}
                  THEN "Warning: date/time still present in file!"
                  ELSE "Success: All date/time information removed!"
             ELSE IF metadata_type = "gps"
             THEN IF \E k \in DOMAIN new_metadata : k[1] = "GPS"
                  THEN "Warning: GPS still present in file!"
                  ELSE "Success: All GPS information removed!"
             ELSE "Verification Results:"

\* The record the history keeps of one call
Call(metadata_type, outcome, loaded, new_file, wrote, logged, before) ==
    [metadata_type |-> metadata_type, outcome |-> outcome, loaded |-> loaded,
     new_file |-> new_file, wrote |-> wrote, logged |-> logged,
     count_before |-> before, count_after |-> clean_file_count']

\* scrub_metadata(metadata_type), the whole try / except. env says which call
\* of the body, if any, the environment makes raise.
scrub_metadata(metadata_type, env) ==
    /\ Len(calls) < MaxCalls
    /\ LET opened == env # "open_error" /\ OpenPath \in DOMAIN disk
           loaded == IF opened THEN LoadExifDict(disk[OpenPath])
                     ELSE EmptyExifDict
           st == RemoveMetadata(loaded, metadata_type)
           n == clean_file_count + 1
           new_file == NewFile(file_path, n)
           image == ImageFile(TRUE, piexif_dump(st.dict))
           failed == "Error during metadata removal"
       IN  IF ~opened
           THEN \* lines 124-127 raise
                /\ console' = failed
                /\ UNCHANGED <<clean_file_count, latest_clean_file, disk,
                               log_exists, log_rows, exif_loaded, exif_dict>>
                /\ calls' = Append(calls, Call(metadata_type, "open_error",
                                   loaded, None, FALSE, FALSE, clean_file_count))
           ELSE IF st.raised # ""
           THEN \* the removal raises, before the counter is touched
                /\ console' = failed
                /\ exif_loaded' = loaded
                /\ exif_dict' = st
                /\ UNCHANGED <<clean_file_count, latest_clean_file, disk,
                               log_exists, log_rows>>
                /\ calls' = Append(calls, Call(metadata_type, st.raised,
                                   loaded, None, FALSE, FALSE, clean_file_count))
           ELSE IF env \in {"dump_error", "save_error"}
           THEN \* piexif.dump or img.save raises, after line 148; a save
                \* that raises leaves no file behind
                /\ console' = failed
                /\ exif_loaded' = loaded
                /\ exif_dict' = st
                /\ clean_file_count' = n
                /\ UNCHANGED <<latest_clean_file, disk, log_exists, log_rows>>
                /\ calls' = Append(calls, Call(metadata_type, env, loaded,
                                   new_file, FALSE, FALSE, clean_file_count))
           ELSE IF env = "log_error"
           THEN \* the file is saved; open() in log_changes raises
                /\ console' = failed
                /\ exif_loaded' = loaded
                /\ exif_dict' = st
                /\ clean_file_count' = n
                /\ disk' = (new_file :> image) @@ disk
                /\ latest_clean_file' = new_file
                /\ UNCHANGED <<log_exists, log_rows>>
                /\ calls' = Append(calls, Call(metadata_type, env, loaded,
                                   new_file, TRUE, FALSE, clean_file_count))
           ELSE /\ console' = verify_changes(image, metadata_type)
                /\ exif_loaded' = loaded
                /\ exif_dict' = st
                /\ clean_file_count' = n
                /\ disk' = (new_file :> image) @@ disk
                /\ latest_clean_file' = new_file
                /\ log_exists' = TRUE
                /\ log_rows' = log_changes(metadata_type, new_file)
                /\ calls' = Append(calls, Call(metadata_type, "ok", loaded,
                                   new_file, TRUE, TRUE, clean_file_count))
    /\ UNCHANGED <<file_path, original_metadata, comparison>>

(* ------------------------------------------------------------------ *)
(* view_current_metadata and compare_metadata                           *)
(* ------------------------------------------------------------------ *)

\* get_latest_clean_file
get_latest_clean_file ==
    IF latest_clean_file # None /\ latest_clean_file \in DOMAIN disk
    THEN latest_clean_file
    ELSE None

\* view_current_metadata: prints, and changes nothing
view_current_metadata ==
    /\ console' =
          IF get_latest_clean_file = None THEN "No cleaned files found."
          ELSE IF HasExifData(disk[get_latest_clean_file])
               THEN "Current Metadata:"
               ELSE "No EXIF data found in current file."
    /\ UNCHANGED objectVars

\* compare_metadata. The two early returns print and go back to the menu.
\* Past them the table header is printed and line 285 is evaluated, outside
\* any try: what it raises leaves compare_metadata, show_menu and main, and
\* the rows of lines 286-304 are never printed.
compare_metadata ==
    IF original_metadata = <<>>
    THEN /\ console' = "No original metadata available to compare."
         /\ UNCHANGED <<pc, objectVars>>
    ELSE IF get_latest_clean_file = None
    THEN /\ console' = "No cleaned files found to compare."
         /\ UNCHANGED <<pc, objectVars>>
    ELSE LET file == disk[get_latest_clean_file]
             current_metadata ==
                 IF HasExifData(file) THEN get_readable_exif(file) ELSE <<>>
             all_tags == ListOrSet(DOMAIN original_metadata,
                                   DOMAIN current_metadata)
         IN  /\ console' = all_tags.raised
             /\ pc' = "crashed"
             /\ UNCHANGED objectVars

(* ------------------------------------------------------------------ *)
(* show_menu: one turn of its loop per choice typed                     *)
(* ------------------------------------------------------------------ *)

Choice1 ==
    /\ pc = "show_menu"
    /\ \E env \in Outcomes : scrub_metadata("datetime", env)
    /\ UNCHANGED pc

Choice2 ==
    /\ pc = "show_menu"
    /\ \E env \in Outcomes : scrub_metadata("gps", env)
    /\ UNCHANGED pc

Choice3 ==
    /\ pc = "show_menu"
    /\ view_current_metadata
    /\ UNCHANGED pc

Choice4 ==
    /\ pc = "show_menu"
    /\ compare_metadata

Choice5 ==
    /\ pc = "show_menu"
    /\ console' = "Thank you for using Image Metadata Scrubber!"
    /\ pc' = "exit"
    /\ UNCHANGED objectVars

ChoiceInvalid ==
    /\ pc = "show_menu"
    /\ console' = "Invalid choice. Please try again."
    /\ UNCHANGED <<pc, objectVars>>

show_menu ==
    \/ Choice1
    \/ Choice2
    \/ Choice3
    \/ Choice4
    \/ Choice5
    \/ ChoiceInvalid

(* ------------------------------------------------------------------ *)
(* main()                                                               *)
(* ------------------------------------------------------------------ *)

Next ==
    \/ \E typed \in InputPaths : get_file_path(typed)
    \/ \E opened \in BOOLEAN : extract_metadata(opened)
    \/ show_menu

Spec == Init /\ [][Next]_vars

(* ------------------------------------------------------------------ *)
(* scrub_metadata called directly, with any identifier                  *)
(* ------------------------------------------------------------------ *)

\* The identifiers a caller may pass: the two of the menu and another one
OperationIds == {"datetime", "gps", "thumbnail"}

\* A caller that builds the object, sets file_path to a JPEG on disk and
\* calls scrub_metadata itself
InitApi ==
    /\ InitObject
    /\ pc = "called"
    /\ \E p \in JpgPaths, f \in SourceFiles :
          /\ file_path = p
          /\ disk = (p :> f) @@ (PathPng :> ImageFile(FALSE, {}))

call_scrub_metadata ==
    /\ pc = "called"
    /\ \E metadata_type \in OperationIds, env \in Outcomes :
          scrub_metadata(metadata_type, env)
    /\ UNCHANGED pc

SpecApi == InitApi /\ [][call_scrub_metadata]_vars

(* ------------------------------------------------------------------ *)
(* The removal step alone, on any document                              *)
(* ------------------------------------------------------------------ *)

\* The documents the removal step is applied to: every exif_dict of at most
\* MaxTags entries over the namespaces, tag ids and values of the model
Documents == {piexif_load(b) : b \in Blocks(MaxTags)}

InitMutator ==
    /\ file_path = None
    /\ original_metadata = <<>>
    /\ clean_file_count = 0
    /\ latest_clean_file = None
    /\ log_exists = FALSE
    /\ log_rows = <<>>
    /\ console = ""
    /\ comparison = {}
    /\ calls = <<>>
    /\ disk = <<>>
    /\ pc = "Decoded"
    /\ \E d \in Documents :
          /\ exif_loaded = d
          /\ exif_dict = Editing(d)

\* Lines 135-145 applied to the document loaded
remove_metadata(metadata_type) ==
    /\ pc = "Decoded"
    /\ pc' = "Mutated"
    /\ exif_dict' = RemoveMetadata(exif_loaded, metadata_type)
    /\ console' = metadata_type
    /\ UNCHANGED <<file_path, original_metadata, clean_file_count,
                   latest_clean_file, disk, log_exists, log_rows, comparison,
                   exif_loaded, calls>>

NextMutator == \E metadata_type \in OperationIds : remove_metadata(metadata_type)

SpecMutator == InitMutator /\ [][NextMutator]_vars

(* ------------------------------------------------------------------ *)
(* Properties of the removal step (SpecMutator)                         *)
(* ------------------------------------------------------------------ *)

\* The removal step has been applied with this identifier
Removed(metadata_type) == pc = "Mutated" /\ console = metadata_type

\* The entries RemoveDateTime is scoped to
DateTimeScope ==
    {<<"0th", DateTime>>, <<"Exif", DateTimeOriginal>>,
     <<"Exif", DateTimeDigitized>>}

\* C1: RemoveDateTime is delete-if-present: whichever of the three tags the
\* document holds, the removal raises nothing, and afterwards the 0th dict
\* has no DateTime and the Exif dict has neither DateTimeOriginal nor
\* DateTimeDigitized.
C1_RemoveDateTimeDeletesIfPresent ==
    Removed("datetime") =>
        /\ exif_dict.raised = ""
        /\ DateTime \notin DOMAIN exif_dict.dict["0th"]
        /\ DateTimeOriginal \notin DOMAIN exif_dict.dict["Exif"]
        /\ DateTimeDigitized \notin DOMAIN exif_dict.dict["Exif"]

\* C1 witness: the removal has run on a document that held DateTimeOriginal
\* but neither DateTime nor DateTimeDigitized
C1_Witness ==
    /\ Removed("datetime")
    /\ DateTimeOriginal \in DOMAIN exif_loaded["Exif"]
    /\ DateTimeDigitized \notin DOMAIN exif_loaded["Exif"]
    /\ DateTime \notin DOMAIN exif_loaded["0th"]
    /\ DateTimeOriginal \notin DOMAIN exif_dict.dict["Exif"]

C3_RemoveGpsChangesOnlyGps ==
    Removed("gps") =>
        /\ exif_dict.raised = ""
        /\ DOMAIN exif_dict.dict["GPS"] = {}
        /\ \A ns \in Namespaces \ {"GPS"} : exif_dict.dict[ns] = exif_loaded[ns]

\* C3 witness: the removal has emptied a GPS namespace that held a tag, in a
\* document with a tag in another namespace
C3_Witness ==
    /\ Removed("gps")
    /\ DOMAIN exif_loaded["GPS"] # {}
    /\ DOMAIN exif_dict.dict["GPS"] = {}
    /\ \E ns \in Namespaces \ {"GPS"} : DOMAIN exif_dict.dict[ns] # {}

(* ------------------------------------------------------------------ *)
(* Properties of a run (Spec) and of direct calls (SpecApi)             *)
(* ------------------------------------------------------------------ *)

\* The calls, by position in the history, that wrote their output file
Wrote == {i \in 1..Len(calls) : calls[i].wrote}

\* How many of the first i calls wrote their output file
WroteUpTo(i) == Cardinality({j \in Wrote : j <= i})

\* The data rows of the log
DataRows == SelectSeq(log_rows, LAMBDA r : r.kind = "data")

\* C4: the counter is incremented once per successful call: clean_file_count
\* is the number of calls that wrote their output file, the k-th successful
\* call writes <stem>_clean_k.jpg, and a call that fails leaves the counter
\* unchanged.
C4_CounterCountsSuccessfulCalls ==
    /\ clean_file_count = Cardinality(Wrote)
    /\ \A i \in Wrote : calls[i].new_file = NewFile(file_path, WroteUpTo(i))
    /\ \A i \in (1..Len(calls)) \ Wrote :
          calls[i].count_after = calls[i].count_before

\* C5: no call writes to the source path or to a path an earlier call wrote:
\* the output paths are pairwise distinct, differ from file_path, and every
\* file written is on disk.
C5_OutputPathsDistinct ==
    /\ \A i \in Wrote : \A j \in Wrote :
          i # j => calls[i].new_file # calls[j].new_file
    /\ \A i \in Wrote :
          /\ calls[i].new_file # file_path
          /\ calls[i].new_file \in DOMAIN disk
          /\ calls[i].new_file = NewFile(file_path, calls[i].count_after)
    /\ Cardinality(DOMAIN disk) = 2 + Cardinality(Wrote)

\* C5 witness: two calls on the same source have written _clean_1 and
\* _clean_2, and both are on disk beside the source
C5_Witness ==
    /\ Cardinality(Wrote) = 2
    /\ NewFile(file_path, 1) \in DOMAIN disk
    /\ NewFile(file_path, 2) \in DOMAIN disk
    /\ file_path \in DOMAIN disk

\* C6: one new file, one audit record: the data rows of the log are as many
\* as the files written, a call appends a row if and only if it wrote its
\* file, and the row names that file and operation.
C6_OneFileOneRow ==
    /\ Len(DataRows) = Cardinality(Wrote)
    /\ \A i \in 1..Len(calls) : calls[i].logged <=> calls[i].wrote
    /\ \A i \in Wrote :
          \E k \in 1..Len(DataRows) :
              DataRows[k] = DataRow(file_path, calls[i].new_file,
                                    calls[i].metadata_type)

\* C7: a call with an identifier other than "datetime" or "gps" fails as an
\* unknown operation: it writes no file, appends no row and does not advance
\* the counter; the calls made from the menu pass "datetime" or "gps".
C7_UnknownOperationRejected ==
    \A i \in 1..Len(calls) :
        /\ calls[i].metadata_type \notin {"datetime", "gps"} =>
              /\ calls[i].outcome = "UnknownOperation"
              /\ ~calls[i].wrote
              /\ ~calls[i].logged
              /\ calls[i].count_after = calls[i].count_before
        /\ pc = "show_menu" => calls[i].metadata_type \in {"datetime", "gps"}

\* The rows C8 expects of the comparison: one per tag of either side, the
\* original value or "Not present" against the current value or "Removed",
\* marked changed when the two differ
ExpectedComparison(original, current) ==
    {[tag |-> tag,
      orig |-> IF tag \in DOMAIN original THEN original[tag] ELSE "Not present",
      curr |-> IF tag \in DOMAIN current THEN current[tag] ELSE "Removed",
      changed |-> ~(tag \in DOMAIN original /\ tag \in DOMAIN current
                    /\ original[tag] = current[tag])] :
        tag \in DOMAIN original \cup DOMAIN current}

\* C8: compare_metadata, called with original metadata and a cleaned file,
\* completes (the menu is shown again) and has printed one row per tag of
\* the union, a tag removed by the scrub as its original value against
\* "Removed", marked changed.
C8_CompareCompletes ==
    [][(/\ original_metadata # <<>>
        /\ get_latest_clean_file # None
        /\ Choice4)
       => /\ pc' = "show_menu"
          /\ comparison' =
                ExpectedComparison(original_metadata,
                                   get_readable_exif(disk[get_latest_clean_file]))]_vars

\* C9: on a source JPEG with no EXIF block, once extract_metadata is done
\* main has returned: the menu is not shown, no scrub call is made, no file
\* is created, no row is logged and the counter is 0; and unless reading the
\* file failed, the message is the one about no EXIF data.
C9_NoExifNoFurtherAction ==
    (/\ file_path \in DOMAIN disk
     /\ ~disk[file_path].has_exif
     /\ pc \notin {"get_file_path", "extract_metadata"})
    => /\ pc = "returned"
       /\ console \in {"No EXIF data found in image.", "Error reading metadata"}
       /\ calls = <<>>
       /\ DOMAIN disk = {file_path, PathPng}
       /\ ~log_exists
       /\ log_rows = <<>>
       /\ clean_file_count = 0
       /\ latest_clean_file = None

\* C9 witness: the run on a JPEG without EXIF block has ended with the
\* message about no EXIF data
C9_Witness ==
    /\ file_path \in DOMAIN disk
    /\ ~disk[file_path].has_exif
    /\ pc = "returned"
    /\ console = "No EXIF data found in image."

\* C10: scrub calls are not cumulative: every call loaded its document from
\* the source file, which is still as it was loaded, and every file written
\* holds that call's single removal applied to the source's document.
C10_EachCallStartsFromSource ==
    \A i \in 1..Len(calls) :
        calls[i].outcome # "open_error" =>
            /\ calls[i].loaded = LoadExifDict(disk[file_path])
            /\ calls[i].wrote =>
                  /\ calls[i].new_file # file_path
                  /\ LoadExifDict(disk[calls[i].new_file]) =
                        RemoveMetadata(LoadExifDict(disk[file_path]),
                                       calls[i].metadata_type).dict

\* C10 witness: after "datetime" then "gps" on a source holding DateTime and
\* GPSLatitude, the latest output still holds DateTime and lacks only GPS
C10_Witness ==
    /\ Len(calls) = 2
    /\ calls[1].metadata_type = "datetime" /\ calls[1].wrote
    /\ calls[2].metadata_type = "gps" /\ calls[2].wrote
    /\ GPSLatitude \in DOMAIN LoadExifDict(disk[file_path])["GPS"]
    /\ latest_clean_file = calls[2].new_file
    /\ DateTime \in DOMAIN LoadExifDict(disk[latest_clean_file])["0th"]
    /\ DOMAIN LoadExifDict(disk[latest_clean_file])["GPS"] = {}
    /\ DateTime \notin DOMAIN LoadExifDict(disk[calls[1].new_file])["0th"]

====
